---- MODULE Spec2Model ----
(***************************************************************************)
(* Poseidon (cmd/poseidon/poseidon.go): the bridge between the Firmament   *)
(* scheduling engine and Kubernetes.  main() connects to Firmament, waits  *)
(* for its health check, starts the schedule() goroutine and then the      *)
(* Kubernetes watchers.  schedule() asks Firmament for a batch of          *)
(* SchedulingDeltas, applies them one by one (bind / delete a pod) and     *)
(* sleeps.  One step of the model is one statement of the source.          *)
(***************************************************************************)
EXTENDS Integers, Sequences, FiniteSets, TLC

----------------------------------------------------------------------------
(* Bounds of the model *)

\* longest batch of deltas one Schedule reply carries
MaxBatch == 2

(* Program constants, in seconds: wait.PollImmediate(2*time.Second, 10*time.Minute, ...) *)
PollInterval == 2
PollTimeout == 600

----------------------------------------------------------------------------
(* Values *)

TaskIDs == {1, 2}
ResIDs == {"r1", "r2"}

\* the pod / node each observer pairs with an identifier of the engine
PodOf(t) == IF t = 1 THEN [Name |-> "podA", Namespace |-> "nsA"]
                     ELSE [Name |-> "podB", Namespace |-> "nsB"]
NodeOf(r) == IF r = "r1" THEN "nodeX" ELSE "nodeY"

\* Go zero values, what a map read returns for a missing key
ZeroPod == [Name |-> "", Namespace |-> ""]
ZeroNode == ""

\* firmament.SchedulingDelta_ChangeType; "UNKNOWN" is any value outside the enumeration
RecognizedTypes == {"PLACE", "PREEMPT", "MIGRATE", "NOOP"}

\* The deltas the engine may send.  NOOP and unrecognized deltas carry ids the
\* code never reads, so one representative of each is enough.
Deltas ==
    [Type : {"PLACE", "PREEMPT", "MIGRATE"}, TaskId : TaskIDs, ResourceId : ResIDs]
    \cup [Type : {"NOOP", "UNKNOWN"}, TaskId : {1}, ResourceId : {"r1"}]

RECURSIVE SeqsUpTo(_, _)
SeqsUpTo(S, n) ==
    IF n = 0 THEN {<<>>}
    ELSE LET shorter == SeqsUpTo(S, n - 1)
         IN  shorter \cup {Append(s, x) : s \in {q \in shorter : Len(q) = n - 1}, x \in S}

Batches == SeqsUpTo(Deltas, MaxBatch)

\* calls into the k8sclient package
BindCall(name, namespace, node) ==
    [op |-> "BindPodToNode", Name |-> name, Namespace |-> namespace, Node |-> node]
DeleteCall(name, namespace) ==
    [op |-> "DeletePod", Name |-> name, Namespace |-> namespace, Node |-> ""]

\* Go map operations
MapHas(m, k) == k \in DOMAIN m
MapGet(m, k, zero) == IF k \in DOMAIN m THEN m[k] ELSE zero
MapPut(m, k, v) == [x \in DOMAIN m \cup {k} |-> IF x = k THEN v ELSE m[x]]
MapDelete(m, k) == [x \in DOMAIN m \ {k} |-> m[x]]
EmptyMap == [x \in {} |-> x]

----------------------------------------------------------------------------
VARIABLES
    mainPc,        \* position of main(): "new", "wait", "go_schedule", "k8s"
    fatal,         \* "none", or why the process ended (glog.Fatalf / panic)
    pollPc,        \* position inside wait.PollImmediate: "probe", "wait", "done"
    pollErr,       \* what PollImmediate returned: "pending", "nil", "ErrWaitTimeout"
    chanOpen,      \* the poller's tick channel is still open (timeout not reached)
    elapsed,       \* seconds since PollImmediate was called (0 once it has returned nil)
    probes,        \* number of health checks issued by the PollImmediate call
    lastProbeAt,   \* value of elapsed at the latest health check
    lastProbe,     \* answer of the latest health check: "none", "true", "false", "error"
    pc,            \* position of the schedule() goroutine
    batch,         \* deltas.GetDeltas() of the current iteration
    reqOk,         \* the current iteration's Schedule request succeeded
    idx,           \* index in batch of the delta in application (0: none yet)
    podIdentifier, \* local of schedule()
    nodeName,      \* local of schedule()
    ok,            \* local of schedule()
    PodMuxR,       \* schedule() holds k8sclient.PodMux.RLock
    NodeMuxR,      \* schedule() holds k8sclient.NodeMux.RLock
    TaskIDToPod,   \* k8sclient.TaskIDToPod
    ResIDToNode,   \* k8sclient.ResIDToNode
    calls,         \* history: the k8sclient calls of the current iteration, in order
    mark,          \* history: Len(calls) when the current delta started
    regPod,        \* history: TaskIDToPod entries under the delta's task at lookup time
    regNode,       \* history: ResIDToNode entries under the delta's resource at lookup time
    podReads,      \* history: reads of TaskIDToPod made for the current delta
    nodeReads,     \* history: reads of ResIDToNode made for the current delta
    commonSeen     \* history: the <<pod, node>> pairs registered together under the ids
                   \* of the PLACE delta in application, at some instant since it was taken

gateVars == <<pollPc, pollErr, chanOpen, elapsed, probes, lastProbeAt, lastProbe>>
loopVars == <<pc, batch, reqOk, idx, podIdentifier, nodeName, ok>>
lockVars == <<PodMuxR, NodeMuxR>>
regVars == <<TaskIDToPod, ResIDToNode>>
histVars == <<calls, mark, regPod, regNode, podReads, nodeReads>>
vars == <<mainPc, fatal, gateVars, loopVars, lockVars, regVars, histVars, commonSeen>>

Running == fatal = "none"

\* wait.PollImmediate calls the condition at once, before the first tick
PollStart_Poll == "wait"
PollStart == "probe"

Init ==
    /\ mainPc = "new"
    /\ fatal = "none"
    /\ pollPc = PollStart
    /\ pollErr = "pending"
    /\ chanOpen = TRUE
    /\ elapsed = 0
    /\ probes = 0
    /\ lastProbeAt = 0
    /\ lastProbe = "none"
    /\ pc = "not_started"
    /\ batch = <<>>
    /\ reqOk = TRUE
    /\ idx = 0
    /\ podIdentifier = ZeroPod
    /\ nodeName = ZeroNode
    /\ ok = FALSE
    /\ PodMuxR = FALSE
    /\ NodeMuxR = FALSE
    /\ TaskIDToPod = EmptyMap
    /\ ResIDToNode = EmptyMap
    /\ calls = <<>>
    /\ mark = 0
    /\ regPod = {}
    /\ regNode = {}
    /\ podReads = 0
    /\ nodeReads = 0
    /\ commonSeen = {}

\* glog.Fatalf: log the message and end the process
Fatalf(msg) == fatal' = msg

----------------------------------------------------------------------------
(* main(), lines 123-139 *)

\* fc, conn, err := firmament.New(...); if err != nil { panic(err) }
MainNew ==
    /\ Running /\ mainPc = "new"
    /\ \/ /\ mainPc' = "wait"
          /\ UNCHANGED fatal
       \/ /\ fatal' = "panic"
          /\ UNCHANGED mainPc
    /\ UNCHANGED <<gateVars, loopVars, lockVars, regVars, histVars, commonSeen>>

\* go schedule(fc)
MainGoSchedule ==
    /\ Running /\ mainPc = "go_schedule"
    /\ mainPc' = "k8s"
    /\ pc' = "schedule"
    /\ UNCHANGED <<fatal, gateVars, batch, reqOk, idx, podIdentifier, nodeName, ok,
                   lockVars, regVars, histVars, commonSeen>>

----------------------------------------------------------------------------
(* WaitForFirmamentService, lines 108-121 *)

\* firmament.Check(fc, serviceReq): (ok, err).  A transport error comes with ok = false.
CheckResults ==
    { [ok |-> TRUE, answer |-> "true"],
      [ok |-> FALSE, answer |-> "false"],
      [ok |-> FALSE, answer |-> "error"] }

\* the poller closes its channel this many seconds after the call (10*time.Minute)
Deadline_TenSeconds == 5 * PollInterval
Deadline == PollTimeout

\* the error the condition function returns to PollImmediate (lines 112-116):
\* the err of firmament.Check is dropped, the condition never fails
ConditionErr_Escalates(r) == IF r.answer = "error" THEN "transport" ELSE "nil"
ConditionErr(r) == "nil"

\* One call of the condition function (lines 111-117) and what PollImmediate does
\* with its answer: return the condition's error if any; done on true;
\* ErrWaitTimeout when the channel has been closed; otherwise wait for the next tick.
PollProbe ==
    /\ Running /\ mainPc = "wait" /\ pollPc = "probe"
    /\ \E r \in CheckResults :
          /\ lastProbe' = r.answer
          /\ IF ConditionErr(r) # "nil"
             THEN pollPc' = "done" /\ pollErr' = ConditionErr(r)
             ELSE IF r.ok
                  THEN pollPc' = "done" /\ pollErr' = "nil"
                  ELSE IF ~chanOpen
                       THEN pollPc' = "done" /\ pollErr' = "ErrWaitTimeout"
                       ELSE pollPc' = "wait" /\ UNCHANGED pollErr
    /\ probes' = probes + 1
    /\ lastProbeAt' = elapsed
    /\ UNCHANGED <<mainPc, fatal, chanOpen, elapsed, loopVars, lockVars, regVars, histVars, commonSeen>>

\* PollImmediate blocked on the poller's channel: the ticker fires every
\* PollInterval, the timer closes the channel at the deadline.
PollWait ==
    /\ Running /\ mainPc = "wait" /\ pollPc = "wait"
    /\ \/ /\ elapsed + PollInterval <= Deadline
          /\ elapsed' = elapsed + PollInterval
          /\ UNCHANGED chanOpen
       \/ /\ elapsed + PollInterval >= Deadline
          /\ elapsed' = Deadline
          /\ chanOpen' = FALSE
    /\ pollPc' = "probe"
    /\ UNCHANGED <<mainPc, fatal, pollErr, probes, lastProbeAt, lastProbe,
                   loopVars, lockVars, regVars, histVars, commonSeen>>

\* if err != nil { glog.Fatalf("Timed-out waiting for firmament service %v", err) }
\* The clock and the probe count belong to the PollImmediate call: they are
\* dropped when WaitForFirmamentService returns.
WaitReturn_LogsAndGoesOn ==
    /\ Running /\ mainPc = "wait" /\ pollPc = "done"
    /\ mainPc' = "go_schedule" /\ UNCHANGED fatal
    /\ IF pollErr # "nil"
       THEN UNCHANGED <<elapsed, probes, lastProbeAt>>
       ELSE elapsed' = 0 /\ probes' = 0 /\ lastProbeAt' = 0
    /\ UNCHANGED <<pollPc, pollErr, chanOpen, lastProbe, loopVars, lockVars, regVars, histVars, commonSeen>>
WaitReturn ==
    /\ Running /\ mainPc = "wait" /\ pollPc = "done"
    /\ IF pollErr # "nil"
       THEN Fatalf("TimedOutWaitingForFirmament") /\ UNCHANGED mainPc
       ELSE mainPc' = "go_schedule" /\ UNCHANGED fatal
    /\ IF pollErr # "nil"
       THEN UNCHANGED <<elapsed, probes, lastProbeAt>>
       ELSE elapsed' = 0 /\ probes' = 0 /\ lastProbeAt' = 0
    /\ UNCHANGED <<pollPc, pollErr, chanOpen, lastProbe, loopVars, lockVars, regVars, histVars, commonSeen>>

----------------------------------------------------------------------------
(* The pod and node watchers started by k8sclient.New (line 138) *)

\* the pair registered under the ids of delta d in the maps tp and rn, if both are
PairsNow(d, tp, rn) ==
    IF MapHas(tp, d.TaskId) /\ MapHas(rn, d.ResourceId)
    THEN {<<tp[d.TaskId], rn[d.ResourceId]>>}
    ELSE {}

\* schedule() is applying a PLACE delta and has not yet made its call
PlaceInFlight ==
    /\ idx >= 1 /\ idx <= Len(batch)
    /\ batch[idx].Type = "PLACE"
    /\ pc \notin {"not_started", "schedule", "range", "sleep"}

\* commonSeen after a watcher has changed the maps to tp and rn
SeenAfter(tp, rn) ==
    IF PlaceInFlight THEN commonSeen \cup PairsNow(batch[idx], tp, rn) ELSE commonSeen

RegisterWorkload(t) ==
    /\ Running /\ mainPc = "k8s" /\ ~PodMuxR
    /\ ~MapHas(TaskIDToPod, t)
    /\ TaskIDToPod' = MapPut(TaskIDToPod, t, PodOf(t))
    /\ UNCHANGED <<mainPc, fatal, gateVars, loopVars, lockVars, ResIDToNode, histVars>>
    /\ commonSeen' = SeenAfter(MapPut(TaskIDToPod, t, PodOf(t)), ResIDToNode)

UnregisterWorkload(t) ==
    /\ Running /\ mainPc = "k8s" /\ ~PodMuxR
    /\ MapHas(TaskIDToPod, t)
    /\ TaskIDToPod' = MapDelete(TaskIDToPod, t)
    /\ UNCHANGED <<mainPc, fatal, gateVars, loopVars, lockVars, ResIDToNode, histVars>>
    /\ commonSeen' = SeenAfter(MapDelete(TaskIDToPod, t), ResIDToNode)

RegisterHost(r) ==
    /\ Running /\ mainPc = "k8s" /\ ~NodeMuxR
    /\ ~MapHas(ResIDToNode, r)
    /\ ResIDToNode' = MapPut(ResIDToNode, r, NodeOf(r))
    /\ UNCHANGED <<mainPc, fatal, gateVars, loopVars, lockVars, TaskIDToPod, histVars>>
    /\ commonSeen' = SeenAfter(TaskIDToPod, MapPut(ResIDToNode, r, NodeOf(r)))

UnregisterHost(r) ==
    /\ Running /\ mainPc = "k8s" /\ ~NodeMuxR
    /\ MapHas(ResIDToNode, r)
    /\ ResIDToNode' = MapDelete(ResIDToNode, r)
    /\ UNCHANGED <<mainPc, fatal, gateVars, loopVars, lockVars, TaskIDToPod, histVars>>
    /\ commonSeen' = SeenAfter(TaskIDToPod, MapDelete(ResIDToNode, r))

----------------------------------------------------------------------------
(* schedule(), lines 65-105 *)

\* firmament.Schedule(fc): the engine's reply, or a transport failure, which is
\* reported and leaves the iteration without deltas
ScheduleReplies ==
    {[ok |-> TRUE, deltas |-> b] : b \in Batches} \cup {[ok |-> FALSE, deltas |-> <<>>]}

\* the delta of the current turn of `for _, delta := range deltas.GetDeltas()`
CurDelta_Backwards == batch[Len(batch) + 1 - idx]
CurDelta == batch[idx]

\* line 67: deltas := firmament.Schedule(fc)
Schedule ==
    /\ Running /\ pc = "schedule"
    /\ \E reply \in ScheduleReplies :
          /\ batch' = reply.deltas
          /\ reqOk' = reply.ok
    /\ pc' = "range"
    /\ UNCHANGED <<mainPc, fatal, gateVars, idx, podIdentifier, nodeName, ok,
                   lockVars, regVars, histVars, commonSeen>>

\* line 69: the range loop takes the next delta, or ends
Range_StopsOneShort ==
    /\ Running /\ pc = "range"
    /\ IF idx + 1 < Len(batch)
       THEN /\ idx' = idx + 1
            /\ pc' = "switch"
            /\ mark' = Len(calls)
            /\ regPod' = {} /\ regNode' = {}
            /\ podReads' = 0 /\ nodeReads' = 0
            /\ podIdentifier' = ZeroPod /\ nodeName' = ZeroNode /\ ok' = FALSE
            /\ commonSeen' = IF batch[idx + 1].Type = "PLACE"
                             THEN PairsNow(batch[idx + 1], TaskIDToPod, ResIDToNode)
                             ELSE {}
       ELSE /\ pc' = "sleep"
            /\ UNCHANGED <<idx, mark, regPod, regNode, podReads, nodeReads,
                           podIdentifier, nodeName, ok, commonSeen>>
    /\ UNCHANGED <<mainPc, fatal, gateVars, batch, reqOk, lockVars, regVars, calls>>
Range ==
    /\ Running /\ pc = "range"
    /\ IF idx < Len(batch)
       THEN /\ idx' = idx + 1
            /\ pc' = "switch"
            /\ mark' = Len(calls)
            /\ regPod' = {} /\ regNode' = {}
            /\ podReads' = 0 /\ nodeReads' = 0
            /\ podIdentifier' = ZeroPod /\ nodeName' = ZeroNode /\ ok' = FALSE
            /\ commonSeen' = IF batch[idx + 1].Type = "PLACE"
                             THEN PairsNow(batch[idx + 1], TaskIDToPod, ResIDToNode)
                             ELSE {}
       ELSE /\ pc' = "sleep"
            /\ UNCHANGED <<idx, mark, regPod, regNode, podReads, nodeReads,
                           podIdentifier, nodeName, ok, commonSeen>>
    /\ UNCHANGED <<mainPc, fatal, gateVars, batch, reqOk, lockVars, regVars, calls>>

\* what the end of a turn of the outer for leaves behind: deltas and the locals of
\* the loop body go out of scope
EndOfIteration ==
    /\ batch' = <<>> /\ reqOk' = TRUE /\ idx' = 0
    /\ podIdentifier' = ZeroPod /\ nodeName' = ZeroNode /\ ok' = FALSE
    /\ calls' = <<>> /\ mark' = 0
    /\ regPod' = {} /\ regNode' = {}
    /\ podReads' = 0 /\ nodeReads' = 0
    /\ commonSeen' = {}

\* line 103: time.Sleep(...), then the next turn of the outer for
Sleep_Return ==
    /\ Running /\ pc = "sleep"
    /\ pc' = "returned"
    /\ EndOfIteration
    /\ UNCHANGED <<mainPc, fatal, gateVars, lockVars, regVars>>
Sleep ==
    /\ Running /\ pc = "sleep"
    /\ pc' = "schedule"
    /\ EndOfIteration
    /\ UNCHANGED <<mainPc, fatal, gateVars, lockVars, regVars>>

\* what a step of the loop body leaves alone unless it says otherwise
BodyFrame == UNCHANGED <<mainPc, gateVars, batch, reqOk, idx, regVars, commonSeen>>

\* line 70-71: case firmament.SchedulingDelta_PLACE
SwitchPlace ==
    /\ Running /\ pc = "switch" /\ CurDelta.Type = "PLACE"
    /\ pc' = "place_rlock_pod"
    /\ BodyFrame
    /\ UNCHANGED <<fatal, podIdentifier, nodeName, ok, lockVars, histVars>>

\* line 85: case firmament.SchedulingDelta_PREEMPT, firmament.SchedulingDelta_MIGRATE
SwitchPreempt_MigrateAsPlace ==
    /\ Running /\ pc = "switch" /\ CurDelta.Type \in {"PREEMPT", "MIGRATE"}
    /\ pc' = IF CurDelta.Type = "MIGRATE" THEN "place_rlock_pod" ELSE "preempt_rlock_pod"
    /\ BodyFrame
    /\ UNCHANGED <<fatal, podIdentifier, nodeName, ok, lockVars, histVars>>
SwitchPreempt ==
    /\ Running /\ pc = "switch" /\ CurDelta.Type \in {"PREEMPT", "MIGRATE"}
    /\ pc' = "preempt_rlock_pod"
    /\ BodyFrame
    /\ UNCHANGED <<fatal, podIdentifier, nodeName, ok, lockVars, histVars>>

\* line 97: case firmament.SchedulingDelta_NOOP: (empty)
SwitchNoop_AsDefault ==
    /\ Running /\ pc = "switch" /\ CurDelta.Type = "NOOP"
    /\ Fatalf("UnexpectedSchedulingDeltaType")
    /\ BodyFrame
    /\ UNCHANGED <<pc, podIdentifier, nodeName, ok, lockVars, histVars>>
SwitchNoop ==
    /\ Running /\ pc = "switch" /\ CurDelta.Type = "NOOP"
    /\ pc' = "range"
    /\ BodyFrame
    /\ UNCHANGED <<fatal, podIdentifier, nodeName, ok, lockVars, histVars>>

\* lines 98-99: default: glog.Fatalf("Unexpected SchedulingDelta type %v", ...)
SwitchDefault_Skip ==
    /\ Running /\ pc = "switch" /\ CurDelta.Type \notin RecognizedTypes
    /\ pc' = "range"
    /\ BodyFrame
    /\ UNCHANGED <<fatal, podIdentifier, nodeName, ok, lockVars, histVars>>
SwitchDefault ==
    /\ Running /\ pc = "switch" /\ CurDelta.Type \notin RecognizedTypes
    /\ Fatalf("UnexpectedSchedulingDeltaType")
    /\ BodyFrame
    /\ UNCHANGED <<pc, podIdentifier, nodeName, ok, lockVars, histVars>>

\* k8sclient.PodMux.RLock() at `at`, continuing at `to`
PodRLock(at, to) ==
    /\ Running /\ pc = at
    /\ PodMuxR' = TRUE
    /\ pc' = to
    /\ BodyFrame
    /\ UNCHANGED <<fatal, podIdentifier, nodeName, ok, NodeMuxR, histVars>>

\* podIdentifier, ok := k8sclient.TaskIDToPod[delta.GetTaskId()]
PodLookup(at, to) ==
    /\ Running /\ pc = at
    /\ podIdentifier' = MapGet(TaskIDToPod, CurDelta.TaskId, ZeroPod)
    /\ ok' = MapHas(TaskIDToPod, CurDelta.TaskId)
    /\ regPod' = {TaskIDToPod[t] : t \in DOMAIN TaskIDToPod \cap {batch[idx].TaskId}}
    /\ podReads' = podReads + 1
    /\ pc' = to
    /\ BodyFrame
    /\ UNCHANGED <<fatal, nodeName, lockVars, calls, mark, regNode, nodeReads>>

\* k8sclient.PodMux.RUnlock()
PodRUnlock(at, to) ==
    /\ Running /\ pc = at
    /\ PodMuxR' = FALSE
    /\ pc' = to
    /\ BodyFrame
    /\ UNCHANGED <<fatal, podIdentifier, nodeName, ok, NodeMuxR, histVars>>

\* if !ok { glog.Fatalf(msg) }
CheckOk_LogOnly(at, to, msg) ==
    /\ Running /\ pc = at
    /\ pc' = to
    /\ BodyFrame
    /\ UNCHANGED <<fatal, podIdentifier, nodeName, ok, lockVars, histVars>>
CheckOk(at, to, msg) ==
    /\ Running /\ pc = at
    /\ IF ~ok
       THEN Fatalf(msg) /\ UNCHANGED pc
       ELSE pc' = to /\ UNCHANGED fatal
    /\ BodyFrame
    /\ UNCHANGED <<podIdentifier, nodeName, ok, lockVars, histVars>>

\* lines 72-77
PlaceRLockPod == PodRLock("place_rlock_pod", "place_lookup_pod")
PlaceLookupPod == PodLookup("place_lookup_pod", "place_runlock_pod")
PlaceRUnlockPod_Forgotten ==
    /\ Running /\ pc = "place_runlock_pod"
    /\ pc' = "place_check_pod"
    /\ BodyFrame
    /\ UNCHANGED <<fatal, podIdentifier, nodeName, ok, lockVars, histVars>>
PlaceRUnlockPod == PodRUnlock("place_runlock_pod", "place_check_pod")
PlaceCheckPod_LogOnly ==
    CheckOk_LogOnly("place_check_pod", "place_rlock_node", "PlacedTaskWithoutPodPairing")
PlaceCheckPod == CheckOk("place_check_pod", "place_rlock_node", "PlacedTaskWithoutPodPairing")

\* line 78: k8sclient.NodeMux.RLock()
PlaceRLockNode ==
    /\ Running /\ pc = "place_rlock_node"
    /\ NodeMuxR' = TRUE
    /\ pc' = "place_lookup_node"
    /\ BodyFrame
    /\ UNCHANGED <<fatal, podIdentifier, nodeName, ok, PodMuxR, histVars>>

\* line 79: nodeName, ok := k8sclient.ResIDToNode[delta.GetResourceId()]
PlaceLookupNode_FirstResource ==
    /\ Running /\ pc = "place_lookup_node"
    /\ nodeName' = MapGet(ResIDToNode, "r1", ZeroNode)
    /\ ok' = MapHas(ResIDToNode, "r1")
    /\ regNode' = {ResIDToNode[r] : r \in DOMAIN ResIDToNode \cap {batch[idx].ResourceId}}
    /\ nodeReads' = nodeReads + 1
    /\ pc' = "place_runlock_node"
    /\ BodyFrame
    /\ UNCHANGED <<fatal, podIdentifier, lockVars, calls, mark, regPod, podReads>>
PlaceLookupNode ==
    /\ Running /\ pc = "place_lookup_node"
    /\ nodeName' = MapGet(ResIDToNode, CurDelta.ResourceId, ZeroNode)
    /\ ok' = MapHas(ResIDToNode, CurDelta.ResourceId)
    /\ regNode' = {ResIDToNode[r] : r \in DOMAIN ResIDToNode \cap {batch[idx].ResourceId}}
    /\ nodeReads' = nodeReads + 1
    /\ pc' = "place_runlock_node"
    /\ BodyFrame
    /\ UNCHANGED <<fatal, podIdentifier, lockVars, calls, mark, regPod, podReads>>

\* line 80: k8sclient.NodeMux.RUnlock()
PlaceRUnlockNode ==
    /\ Running /\ pc = "place_runlock_node"
    /\ NodeMuxR' = FALSE
    /\ pc' = "place_check_node"
    /\ BodyFrame
    /\ UNCHANGED <<fatal, podIdentifier, nodeName, ok, PodMuxR, histVars>>

\* lines 81-83
PlaceCheckNode == CheckOk("place_check_node", "place_bind", "PlacedTaskWithoutNodePairing")

\* line 84: k8sclient.BindPodToNode(podIdentifier.Name, podIdentifier.Namespace, nodeName)
PlaceBind_Twice ==
    /\ Running /\ pc = "place_bind"
    /\ LET c == BindCall(podIdentifier.Name, podIdentifier.Namespace, nodeName)
       IN  calls' = calls \o <<c, c>>
    /\ pc' = "range"
    /\ BodyFrame
    /\ UNCHANGED <<fatal, podIdentifier, nodeName, ok, lockVars,
                   mark, regPod, regNode, podReads, nodeReads>>
PlaceBind ==
    /\ Running /\ pc = "place_bind"
    /\ calls' = Append(calls, BindCall(podIdentifier.Name, podIdentifier.Namespace, nodeName))
    /\ pc' = "range"
    /\ BodyFrame
    /\ UNCHANGED <<fatal, podIdentifier, nodeName, ok, lockVars,
                   mark, regPod, regNode, podReads, nodeReads>>

\* lines 86-91
PreemptRLockPod == PodRLock("preempt_rlock_pod", "preempt_lookup_pod")
PreemptLookupPod == PodLookup("preempt_lookup_pod", "preempt_runlock_pod")
PreemptRUnlockPod == PodRUnlock("preempt_runlock_pod", "preempt_check_pod")
PreemptCheckPod_LogOnly ==
    CheckOk_LogOnly("preempt_check_pod", "preempt_delete", "PreemptedTaskWithoutPodPairing")
PreemptCheckPod ==
    CheckOk("preempt_check_pod", "preempt_delete", "PreemptedTaskWithoutPodPairing")

\* line 96: k8sclient.DeletePod(podIdentifier.Name, podIdentifier.Namespace)
PreemptDelete_MigrateRebinds ==
    /\ Running /\ pc = "preempt_delete"
    /\ calls' = Append(calls,
                       IF CurDelta.Type = "MIGRATE"
                       THEN BindCall(podIdentifier.Name, podIdentifier.Namespace,
                                     MapGet(ResIDToNode, CurDelta.ResourceId, ZeroNode))
                       ELSE DeleteCall(podIdentifier.Name, podIdentifier.Namespace))
    /\ pc' = "range"
    /\ BodyFrame
    /\ UNCHANGED <<fatal, podIdentifier, nodeName, ok, lockVars,
                   mark, regPod, regNode, podReads, nodeReads>>
PreemptDelete_Unregisters ==
    /\ Running /\ pc = "preempt_delete"
    /\ calls' = Append(calls, DeleteCall(podIdentifier.Name, podIdentifier.Namespace))
    /\ pc' = "range"
    /\ TaskIDToPod' = MapDelete(TaskIDToPod, CurDelta.TaskId)
    /\ UNCHANGED <<mainPc, gateVars, batch, reqOk, idx, ResIDToNode, commonSeen>>
    /\ UNCHANGED <<fatal, podIdentifier, nodeName, ok, lockVars,
                   mark, regPod, regNode, podReads, nodeReads>>
PreemptDelete ==
    /\ Running /\ pc = "preempt_delete"
    /\ calls' = Append(calls, DeleteCall(podIdentifier.Name, podIdentifier.Namespace))
    /\ pc' = "range"
    /\ BodyFrame
    /\ UNCHANGED <<fatal, podIdentifier, nodeName, ok, lockVars,
                   mark, regPod, regNode, podReads, nodeReads>>

----------------------------------------------------------------------------
Next ==
    \/ MainNew
    \/ PollProbe
    \/ PollWait
    \/ WaitReturn
    \/ MainGoSchedule
    \/ \E t \in TaskIDs : RegisterWorkload(t)
    \/ \E t \in TaskIDs : UnregisterWorkload(t)
    \/ \E r \in ResIDs : RegisterHost(r)
    \/ \E r \in ResIDs : UnregisterHost(r)
    \/ Schedule
    \/ Range
    \/ SwitchPlace
    \/ SwitchPreempt
    \/ SwitchNoop
    \/ SwitchDefault
    \/ PlaceRLockPod
    \/ PlaceLookupPod
    \/ PlaceRUnlockPod
    \/ PlaceCheckPod
    \/ PlaceRLockNode
    \/ PlaceLookupNode
    \/ PlaceRUnlockNode
    \/ PlaceCheckNode
    \/ PlaceBind
    \/ PreemptRLockPod
    \/ PreemptLookupPod
    \/ PreemptRUnlockPod
    \/ PreemptCheckPod
    \/ PreemptDelete
    \/ Sleep

Spec == Init /\ [][Next]_vars

\* the steps of the schedule() goroutine
LoopStep ==
    \/ Schedule \/ Range \/ Sleep
    \/ SwitchPlace \/ SwitchPreempt \/ SwitchNoop \/ SwitchDefault
    \/ PlaceRLockPod \/ PlaceLookupPod \/ PlaceRUnlockPod \/ PlaceCheckPod
    \/ PlaceRLockNode \/ PlaceLookupNode \/ PlaceRUnlockNode \/ PlaceCheckNode
    \/ PlaceBind
    \/ PreemptRLockPod \/ PreemptLookupPod \/ PreemptRUnlockPod \/ PreemptCheckPod
    \/ PreemptDelete

\* The Go scheduler keeps running the goroutine, the engine answers every request,
\* the sleep ends and a read lock is granted once no writer holds the mutex.
FairSpec == Spec /\ WF_vars(LoopStep)

----------------------------------------------------------------------------
(* Vocabulary of the properties *)

\* the delta the range loop has taken last
InDelta == idx >= 1
\* that delta has been applied completely: control is back at the range loop, or past
\* it when the delta was the last one
Applied == InDelta /\ pc \in {"range", "sleep"}
\* the k8sclient calls made for that delta
DeltaCalls == SubSeq(calls, mark + 1, Len(calls))
\* the Fatalf messages of a delta whose task or resource is not registered
BrokenInvariantMsgs ==
    {"PlacedTaskWithoutPodPairing", "PlacedTaskWithoutNodePairing",
     "PreemptedTaskWithoutPodPairing"}
\* a lookup made for the delta found its identifier absent from the registry
MissingId ==
    /\ InDelta
    /\ \/ batch[idx].Type \in {"PLACE", "PREEMPT", "MIGRATE"} /\ podReads = 1 /\ regPod = {}
       \/ batch[idx].Type = "PLACE" /\ nodeReads = 1 /\ regNode = {}
\* where schedule() stands between a lookup and the end of the check that follows it
CheckPositions ==
    {"place_runlock_pod", "place_check_pod", "place_runlock_node", "place_check_node",
     "preempt_runlock_pod", "preempt_check_pod"}
\* number of deltas of the batch that have been applied completely
Done == IF pc \in {"not_started", "schedule", "range", "sleep"} THEN idx
        ELSE IF idx = 0 THEN 0 ELSE idx - 1
IsAction(d) == d.Type \in {"PLACE", "PREEMPT", "MIGRATE"}
\* the call a delta stands for, with the pod and node registered under its ids
CallOf(d) ==
    IF d.Type = "PLACE"
    THEN BindCall(PodOf(d.TaskId).Name, PodOf(d.TaskId).Namespace, NodeOf(d.ResourceId))
    ELSE DeleteCall(PodOf(d.TaskId).Name, PodOf(d.TaskId).Namespace)
CallsOf(ds) ==
    LET acts == SelectSeq(ds, IsAction) IN [i \in 1..Len(acts) |-> CallOf(acts[i])]

----------------------------------------------------------------------------
(* C1: a PLACE delta whose task was registered in TaskIDToPod and whose     *)
(* resource was registered in ResIDToNode when schedule() looked them up    *)
(* never ends in Fatalf, makes no call before its bind, and once applied    *)
(* has made exactly one call: BindPodToNode with the registered pod's name  *)
(* and namespace and the registered node name; no DeletePod.                *)
C1_PlaceBindsOnce ==
    (InDelta /\ batch[idx].Type = "PLACE" /\ regPod # {} /\ regNode # {}) =>
        /\ fatal = "none"
        /\ LET p == CHOOSE x \in regPod : TRUE
               n == CHOOSE x \in regNode : TRUE
           IN  IF Applied
               THEN DeltaCalls = <<BindCall(p.Name, p.Namespace, n)>>
               ELSE DeltaCalls = <<>>

C1_Witness ==
    /\ Applied
    /\ batch[idx] = [Type |-> "PLACE", TaskId |-> 1, ResourceId |-> "r1"]
    /\ DeltaCalls = <<BindCall("podA", "nsA", "nodeX")>>

(* C2: a PREEMPT or MIGRATE delta whose task was registered when schedule() *)
(* looked it up never ends in Fatalf and, once applied, has made exactly    *)
(* one call: DeletePod with the registered pod's name and namespace; no     *)
(* bind.  The two kinds are not told apart.                                 *)
C2_PreemptMigrateDeleteOnce ==
    (InDelta /\ batch[idx].Type \in {"PREEMPT", "MIGRATE"} /\ regPod # {}) =>
        /\ fatal = "none"
        /\ LET p == CHOOSE x \in regPod : TRUE
           IN  IF Applied
               THEN DeltaCalls = <<DeleteCall(p.Name, p.Namespace)>>
               ELSE DeltaCalls = <<>>

C2_Witness ==
    /\ Applied /\ idx = 2
    /\ batch[1].Type = "PREEMPT" /\ batch[1].TaskId = 1
    /\ batch[2].Type = "MIGRATE" /\ batch[2].TaskId = 1
    /\ calls = <<DeleteCall("podA", "nsA"), DeleteCall("podA", "nsA")>>

(* C3: at every moment the calls of the current batch are exactly the calls *)
(* of the PLACE / PREEMPT / MIGRATE deltas among the deltas applied so far, *)
(* in batch order: one delta at a time, none skipped, none reordered, and   *)
(* nothing for NOOP.                                                        *)
C3_CallsInBatchOrder ==
    /\ idx <= Len(batch)
    /\ calls = CallsOf(SubSeq(batch, 1, Done))

C3_Witness ==
    /\ pc = "sleep"
    /\ batch = << [Type |-> "PLACE", TaskId |-> 1, ResourceId |-> "r1"],
                  [Type |-> "MIGRATE", TaskId |-> 1, ResourceId |-> "r2"] >>
    /\ calls = <<BindCall("podA", "nsA", "nodeX"), DeleteCall("podA", "nsA")>>

C7_NoopNoEffect ==
    (InDelta /\ batch[idx].Type = "NOOP") =>
        /\ pc \in {"switch", "range", "sleep"}
        /\ fatal = "none"
        /\ DeltaCalls = <<>>
        /\ podReads = 0 /\ nodeReads = 0
        /\ ~PodMuxR /\ ~NodeMuxR

C7_Witness ==
    /\ Applied /\ idx = 1 /\ Len(batch) = 2
    /\ batch[1].Type = "NOOP"
    /\ calls = <<>>

C9_ReadyAsSoonAsProbeTrue ==
    /\ (lastProbe = "true") = (pollErr = "nil")
    /\ pollErr = "nil" => (pollPc = "done" /\ elapsed = lastProbeAt)
    /\ probes = 1 => lastProbeAt = 0
    /\ elapsed > 0 => probes >= 1

C9_Witness ==
    /\ mainPc = "wait" /\ pollPc = "done" /\ pollErr = "nil"
    /\ probes = 1 /\ elapsed = 0

(* C10: while no health check answers true, checks are made every           *)
(* PollInterval; ErrWaitTimeout is returned only when PollTimeout seconds   *)
(* have elapsed, and its Fatalf ends the process before schedule() starts.  *)
C10_TimeoutOnlyAfterDeadline ==
    /\ pollErr = "ErrWaitTimeout" =>
          /\ elapsed >= PollTimeout
          /\ lastProbe # "true"
          /\ probes >= PollTimeout \div PollInterval + 1
    /\ (mainPc = "wait" /\ pollErr # "nil") =>
          /\ elapsed - lastProbeAt \in {0, PollInterval}
          /\ probes >= elapsed \div PollInterval
    /\ fatal = "TimedOutWaitingForFirmament" =>
          /\ pollErr = "ErrWaitTimeout"
          /\ mainPc = "wait" /\ pc = "not_started"
          /\ calls = <<>>

C10_Witness ==
    /\ fatal = "TimedOutWaitingForFirmament"
    /\ elapsed = PollTimeout
    /\ pc = "not_started"

(* C11: a health check that fails with a transport error has the effect of  *)
(* one that answers false: PollImmediate does not return nil, it returns    *)
(* ErrWaitTimeout only if the deadline has passed, and otherwise goes on to *)
(* the next tick; the process is not ended before the deadline.             *)
C11_ProbeErrorIsNotReady ==
    (mainPc = "wait" /\ lastProbe \in {"false", "error"}) =>
        /\ pollErr \in {"pending", "ErrWaitTimeout"}
        /\ pollErr = "ErrWaitTimeout" <=> (pollPc = "done" /\ ~chanOpen)
        /\ ~chanOpen => elapsed >= PollTimeout
        /\ pollErr = "pending" => (pollPc \in {"wait", "probe"} /\ fatal = "none")
        /\ fatal \in {"none", "TimedOutWaitingForFirmament"}

C11_Witness ==
    /\ lastProbe = "error"
    /\ pollPc = "probe" /\ pollErr = "pending"
    /\ probes = 2 /\ elapsed = 2 * PollInterval
    /\ fatal = "none"

(* C12: schedule() is started, and so a Schedule request is made or a delta *)
(* dispatched, only after PollImmediate has returned nil, that is after a   *)
(* health check has answered true.                                          *)
C12_GateBeforeLoop ==
    (pc # "not_started" \/ mainPc \in {"go_schedule", "k8s"}) =>
        (lastProbe = "true" /\ pollErr = "nil" /\ pollPc = "done")

C12_Witness ==
    /\ pc = "switch" /\ idx = 1
    /\ lastProbe = "true"

(* C13: one iteration is request, then every delta, then the sleep.  The    *)
(* request is reached only from the start of the goroutine or from the      *)
(* sleep; the sleep is reached only with every delta of the batch applied   *)
(* and its calls made; a batch is never replaced while in application.      *)
C13_IterationsDoNotOverlap ==
    /\ [](pc = "sleep" => (idx = Len(batch) /\ calls = CallsOf(batch)))
    /\ [](pc = "schedule" => (batch = <<>> /\ idx = 0 /\ calls = <<>>))
    /\ [][(pc' = "schedule" /\ pc # "schedule") => pc \in {"not_started", "sleep"}]_vars
    /\ [][(pc = "schedule" /\ pc' # pc) => (pc' = "range" /\ idx' = 0)]_vars
    /\ [][batch' # batch => pc \in {"schedule", "sleep"}]_vars

C13_Witness ==
    /\ pc = "sleep" /\ Len(batch) = 2 /\ idx = 2
    /\ Len(calls) = 2

C15_LoopReadsRegistryOnly ==
    /\ [][(pc' # pc \/ fatal' # fatal \/ calls' # calls \/ idx' # idx)
             => (TaskIDToPod' = TaskIDToPod /\ ResIDToNode' = ResIDToNode)]_vars
    /\ [][(TaskIDToPod' # TaskIDToPod \/ ResIDToNode' # ResIDToNode)
             => (mainPc = "k8s" /\ UNCHANGED <<loopVars, lockVars, histVars, fatal>>)]_vars

C15_Witness ==
    /\ Applied /\ batch[idx].Type = "PREEMPT" /\ batch[idx].TaskId = 1
    /\ DeltaCalls = <<DeleteCall("podA", "nsA")>>
    /\ 1 \in DOMAIN TaskIDToPod /\ TaskIDToPod[1] = PodOf(1)
    /\ DOMAIN ResIDToNode = ResIDs

(* C16: schedule() holds PodMux only around the read of TaskIDToPod and     *)
(* NodeMux only around the read of ResIDToNode: never both, never at a      *)
(* check, a Fatalf, a bind or a delete, never across deltas.  Each read     *)
(* lock is given back two steps after it was taken, so a watcher waiting    *)
(* for the write lock gets it.                                              *)
C16_ReadLocksAreShort ==
    /\ [](~(PodMuxR /\ NodeMuxR))
    /\ [](PodMuxR => pc \in {"place_lookup_pod", "place_runlock_pod",
                             "preempt_lookup_pod", "preempt_runlock_pod"})
    /\ [](NodeMuxR => pc \in {"place_lookup_node", "place_runlock_node"})
    /\ []((PodMuxR \/ NodeMuxR) => fatal = "none")
    /\ [](PodMuxR => podReads <= 1) /\ [](NodeMuxR => nodeReads <= 1)
    /\ PodMuxR ~> ~PodMuxR
    /\ NodeMuxR ~> ~NodeMuxR

C16_Witness ==
    /\ fatal = "PlacedTaskWithoutNodePairing"
    /\ podReads = 1 /\ nodeReads = 1
    /\ ~PodMuxR /\ ~NodeMuxR

(* C17: the process never ends while a delta is in application, after a     *)
(* registry lookup made for it and before its bind or delete.               *)
C17_NoShutdownMidDelta ==
    fatal # "none" => ~(InDelta /\ ~Applied /\ podReads >= 1 /\ DeltaCalls = <<>>)

(* C18, as claimed: when schedule() is about to bind, the pod and the node  *)
(* it passes were registered together under the delta's ids at some instant *)
(* since the delta was taken, and the task is still registered to that pod. *)
C18_BindUsesCommonInstant ==
    pc = "place_bind" =>
        /\ <<podIdentifier, nodeName>> \in commonSeen
        /\ MapHas(TaskIDToPod, batch[idx].TaskId)
        /\ TaskIDToPod[batch[idx].TaskId] = podIdentifier

(* C18, amended: when schedule() is about to bind, the pod it passes is the *)
(* one that was registered under the delta's task at the instant of the     *)
(* single read of TaskIDToPod and the node the one registered under the     *)
(* delta's resource at the later instant of the single read of ResIDToNode. *)
C18_BindUsesEachLookup ==
    pc = "place_bind" =>
        /\ InDelta /\ batch[idx].Type = "PLACE"
        /\ regPod = {podIdentifier} /\ regNode = {nodeName}
        /\ podReads = 1 /\ nodeReads = 1
        /\ ~PodMuxR /\ ~NodeMuxR

C18_Witness ==
    /\ pc = "place_bind"
    /\ commonSeen = {}
    /\ ~MapHas(TaskIDToPod, batch[idx].TaskId)
    /\ podIdentifier = PodOf(1) /\ nodeName = NodeOf("r1")

(* C19: what a PREEMPT or MIGRATE delta does is a function of its task and  *)
(* of TaskIDToPod alone: it never takes NodeMux nor reads ResIDToNode, its  *)
(* only call is DeletePod of the pod paired with the task, its only failure *)
(* the Fatalf of a task without pod; neither names the resource or a node.  *)
C19_PreemptIgnoresResource ==
    (InDelta /\ batch[idx].Type \in {"PREEMPT", "MIGRATE"}) =>
        /\ nodeReads = 0 /\ ~NodeMuxR
        /\ nodeName = ZeroNode /\ regNode = {}
        /\ pc \in {"switch", "preempt_rlock_pod", "preempt_lookup_pod", "preempt_runlock_pod",
                   "preempt_check_pod", "preempt_delete", "range", "sleep"}
        /\ DeltaCalls = IF Applied
                        THEN <<DeleteCall(PodOf(batch[idx].TaskId).Name,
                                          PodOf(batch[idx].TaskId).Namespace)>>
                        ELSE <<>>
        /\ fatal # "none" =>
              (fatal = "PreemptedTaskWithoutPodPairing" /\ podReads = 1 /\ regPod = {})

C19_Witness ==
    /\ Applied /\ idx = 2
    /\ batch = << [Type |-> "MIGRATE", TaskId |-> 1, ResourceId |-> "r1"],
                  [Type |-> "MIGRATE", TaskId |-> 1, ResourceId |-> "r2"] >>
    /\ calls = <<DeleteCall("podA", "nsA"), DeleteCall("podA", "nsA")>>
    /\ ResIDToNode = EmptyMap

====
